---- MODULE Spec2Model ----
(***************************************************************************)
(* Orbit-Flash landing page: the HeroCanvas render-loop lifecycle and the  *)
(* Hero section that owns it.                                              *)
(*                                                                         *)
(* Units.  Time is in integer milliseconds.  Angles are in micro-radians,  *)
(* angular speeds in milli-radians per second (so speed * dt_ms is in      *)
(* micro-radians), lengths in thousandths.  Math.random() is a value in    *)
(* 0..999 thousandths read in turn from a fixed table, from a start the    *)
(* host picks.                                                             *)
(*                                                                         *)
(* React scheduling that the component relies on:                          *)
(*  - a commit whose dependency list differs from the previous one marks   *)
(*    the init effect as pending; the pending effect is flushed (cleanup   *)
(*    of the previous run, then the new run) before the next render;       *)
(*  - when the component is deleted, the ref of its host <div> is detached *)
(*    in the mutation phase, before the passive cleanup runs, so the       *)
(*    cleanup then reads mountRef.current = null;                          *)
(*  - an error thrown by render or by an effect cleanup goes to the        *)
(*    nearest error boundary above the thrower, which unmounts its         *)
(*    children.  Hero renders no boundary of its own.                      *)
(***************************************************************************)
EXTENDS Integers, Sequences, FiniteSets, TLC

\* ------------------------------------------------------------------ bounds
MaxInits == 3
MaxTime == 40
MaxHW == 8
MaxMem == 8
NumSeeds == 2
MaxLoads == 3
MaxCalls == 3
MaxScrollTime == 30
MaxClicks == 5

\* ------------------------------------------------------- program constants
LowOrbitCount == 8
HighOrbitCount == 12
LowFPS == 30
HighFPS == 60
DefaultConcurrency == 4
DefaultMemory == 4
TierThreshold == 4
HeroMinConcurrency == 4
GsapMinConcurrency == 4
GsapMaxPixelRatio == 2
ScrollDelay == 10
NumTestimonials == 3
RetryLimit == 3

TwoPi == 6283185
PiMilli == 3142

\* host values the model draws from
TickSteps == {5, 35}
HWValues == {2, 8}
MemValues == {0, 8}
ContainerSizes == {<<800, 600>>, <<400, 300>>, <<300, 400>>}
RandTable == <<0, 999, 500, 250, 750>>
PixelRatios == {1, 2, 3}
ScrollTickSteps == {5}

\* -------------------------------------------------------- pure functions

\* navigator.x || dflt : an unreported (or zero) signal falls back to dflt
OrDefault(v, dflt) == IF v = 0 THEN dflt ELSE v

getPerformanceLevelWithAnd(hwc, dm) ==
    IF OrDefault(hwc, DefaultConcurrency) <= TierThreshold
         /\ OrDefault(dm, DefaultMemory) <= TierThreshold
    THEN "low" ELSE "high"

getPerformanceLevel(hwc, dm) ==
    LET hardwareConcurrency == OrDefault(hwc, DefaultConcurrency)
        memory == OrDefault(dm, DefaultMemory)
    IN  IF hardwareConcurrency <= TierThreshold \/ memory <= TierThreshold
        THEN "low" ELSE "high"

Antialias(level) == level = "high"
OrbitCount(level) == IF level = "high" THEN HighOrbitCount ELSE LowOrbitCount
TargetFPS(level) == IF level = "high" THEN HighFPS ELSE LowFPS

\* currentTime - lastFrameTime >= 1000 / targetFPS, without the division
IntervalElapsed(currentTime, lastFrameTime, fps) ==
    (currentTime - lastFrameTime) * fps >= 1000

\* Math.random(): the k-th value after generator state g, in thousandths, and
\* the generator state after n values
Random(g, k) == RandTable[((g + k) % Len(RandTable)) + 1]
Advance(g, n) == (g + n) % Len(RandTable)

\* Math.sin / Math.cos of an angle in micro-radians, in thousandths
\* (Bhaskara's rational approximation on each half turn)
SinHalf(m) == (16 * m * (PiMilli - m)) \div ((5 * PiMilli * PiMilli - 4 * m * (PiMilli - m)) \div 1000)
SinMilli(a) ==
    LET m == ((a % TwoPi) \div 1000)
    IN  IF m <= PiMilli THEN SinHalf(m) ELSE 0 - SinHalf(m - PiMilli)
CosMilli(a) == SinMilli(a + (TwoPi \div 4))

\* ------------------------------------------------------------------ state
VARIABLES
    hw, mem, webgl,          \* navigator.hardwareConcurrency, deviceMemory (0: not reported), window.WebGLRenderingContext
    now,                     \* host clock, ms
    containerSize,           \* <<clientWidth, clientHeight>> of the host container
    docHidden,               \* document.hidden
    capChecked, shouldLoadCanvas, canvasError, heroIsVisible, shouldReduceMotion,
    page,                    \* "rendered" | "crashed" | "left"
    hc,                      \* HeroCanvas: "absent" | "mounted" | "unmounted"
    isVisible, error,        \* HeroCanvas useState
    mountRef,                \* mountRef.current is the container (TRUE) or null (FALSE)
    frameRef, sceneRef, rendererRef, orbitsRef,   \* 0: undefined / null, k: set by run k of the effect
    insts,                   \* one record per run of the init effect: its closure and what it constructed
    children,                \* renderers whose domElement is a child of the container
    rafPending,              \* requested animation frames: [id, inst]
    resizeListeners,         \* runs whose handleResize is subscribed to window 'resize'
    rng,                     \* state of the host's Math.random generator
    moduleLoaded,            \* the 'three' module has been loaded and evaluated once
    crashPending,            \* an effect cleanup raised; the error is on its way to the error boundary
    pauseSnap,               \* history: orbit positions when the effect last saw paused become true
    vs,                      \* VisualSection: its state, its pending effect and import
    wallet,                  \* Hero's Get Started: the wagmi account, Hero's walletConnected, the last toast
    qc,                      \* a query or mutation of queryClient: its retryer's state
    car,                      \* Testimonials: its state, its interval timer, its pending effect
    db                       \* Navbar's useDebounce(handleScroll, 10): its state, its timers, the subscribed handler

hostVars == <<hw, mem, webgl, now, containerSize, docHidden, rng, moduleLoaded>>
heroVars == <<capChecked, shouldLoadCanvas, canvasError, heroIsVisible, shouldReduceMotion, page>>
refVars == <<frameRef, sceneRef, rendererRef, orbitsRef>>
canvasVars == <<hc, isVisible, error, mountRef, refVars, insts, children, rafPending, resizeListeners, crashPending>>
\* the page's other components, each with its own state
compVars == <<vs, db, wallet, car, qc>>
heroCanvasVars == <<hostVars, heroVars, canvasVars, pauseSnap>>
vars == <<heroCanvasVars, compVars>>

\* props Hero passes to HeroCanvas
Paused == ~heroIsVisible
PrefersReducedMotion == shouldReduceMotion

Cur == Len(insts)
Deps(i) == <<i.cPaused, i.cReduced, i.cVisible>>
CurrentDeps == <<Paused, PrefersReducedMotion, isVisible>>

\* the init effect has to run: first commit, or a commit with changed dependencies
EffectPending ==
    hc = "mounted" /\ (IF Cur = 0 THEN TRUE ELSE Deps(insts[Cur]) # CurrentDeps)

Positions(orbits) == [j \in 1..Len(orbits) |-> <<orbits[j].x, orbits[j].y, orbits[j].z>>]

\* ------------------------------------------------- initThreeJS: the scene

\* one orbiting sphere, i = 0 .. orbitCount-1; four Math.random() calls each
NewOrbit(g, i, orbitCount) ==
    [ radius        |-> 2000 + (Random(g, 4 * i) * 1500) \div 1000,
      angle         |-> (i * TwoPi) \div orbitCount,
      height        |-> (Random(g, 4 * i + 1) - 500) * 500,
      speed         |-> 200 + (Random(g, 4 * i + 2) * 300) \div 1000,
      verticalSpeed |-> 100 + (Random(g, 4 * i + 3) * 200) \div 1000,
      x |-> 0, y |-> 0, z |-> 0, rotY |-> 0 ]

NewOrbits(g, level) ==
    [j \in 1..OrbitCount(level) |-> NewOrbit(g, j - 1, OrbitCount(level))]

\* the closure of one run of the effect, before anything is constructed
NewInst ==
    [ mounted |-> TRUE,
      cPaused |-> Paused, cReduced |-> PrefersReducedMotion, cVisible |-> isVisible,
      pc |-> "importing",          \* "importing" | "running" | "failed" | "aborted"
      level |-> "none", antialias |-> FALSE, fps |-> 0,
      orbits |-> <<>>, created |-> <<>>,
      core |-> [rotX |-> 0, rotY |-> 0],
      geomDisposed |-> <<>>, matDisposed |-> <<>>,   \* per mesh (core first), times disposed
      rendererDisposed |-> 0,
      size |-> <<0, 0>>, aspect |-> <<0, 0>>,                    \* renderer size; camera aspect as <<numerator, denominator>>
      resized |-> FALSE,                                         \* history: its handleResize has set a size
      clock |-> [running |-> FALSE, oldTime |-> 0],
      lastFrameTime |-> 0,
      prevRender |-> -1, lastRender |-> -1,                      \* history: times of the last two renderer.render calls
      ticks |-> <<>>,                                            \* history: the first two frame callbacks
      tornAt |-> "", tornRaised |-> FALSE, tornLeft |-> 0 ]      \* history: pc when its cleanup ran, whether it raised, surfaces left attached

\* lines 60-137: tier, camera, renderer, core, orbits, clock
Construct(inst, g) ==
    LET level == getPerformanceLevel(hw, mem)
        orbits == NewOrbits(g, level)
    IN  [inst EXCEPT
            !.pc = "running",
            !.level = level,
            !.antialias = Antialias(level),
            !.fps = TargetFPS(level),
            !.orbits = orbits, !.created = orbits,
            !.geomDisposed = [m \in 1..(Len(orbits) + 1) |-> 0],
            !.matDisposed = [m \in 1..(Len(orbits) + 1) |-> 0],
            !.size = containerSize, !.aspect = containerSize,
            !.lastFrameTime = 0]

\* ------------------------------------------------------- the frame callback

\* THREE.Clock.getDelta at host time t: <<delta in ms, clock afterwards>>
GetDelta(clock, t) ==
    IF ~clock.running
    THEN <<0, [running |-> TRUE, oldTime |-> t]>>
    ELSE <<t - clock.oldTime, [clock EXCEPT !.oldTime = t]>>

MoveOrbitSlowing(o, deltaTime) ==
    LET angle == o.angle + o.speed * deltaTime
        height == o.height + (o.verticalSpeed * deltaTime) \div 2
    IN  [o EXCEPT !.angle = angle, !.height = height,
                  !.speed = (o.speed * 99) \div 100,
                  !.x = (CosMilli(angle) * o.radius) \div 1000,
                  !.z = (SinMilli(angle) * o.radius) \div 1000,
                  !.y = (SinMilli(height) * 300) \div 1000,
                  !.rotY = o.rotY + deltaTime * 500]

\* lines 172-183
MoveOrbit(o, deltaTime) ==
    LET angle == o.angle + o.speed * deltaTime
        height == o.height + (o.verticalSpeed * deltaTime) \div 2
    IN  [o EXCEPT !.angle = angle, !.height = height,
                  !.x = (CosMilli(angle) * o.radius) \div 1000,
                  !.z = (SinMilli(angle) * o.radius) \div 1000,
                  !.y = (SinMilli(height) * 300) \div 1000,
                  !.rotY = o.rotY + deltaTime * 500]

\* lines 170-188: the animation math of one rendered frame
Moved(inst, deltaTime) ==
    [inst EXCEPT
        !.orbits = [j \in 1..Len(inst.orbits) |-> MoveOrbit(inst.orbits[j], deltaTime)],
        !.core = [rotX |-> inst.core.rotX + deltaTime * 100,
                  rotY |-> inst.core.rotY + deltaTime * 200]]

MotionIgnoringPreference(inst, deltaTime) == Moved(inst, deltaTime)

\* line 170
Motion(inst, deltaTime) ==
    IF ~inst.cReduced THEN Moved(inst, deltaTime) ELSE inst

IdleOnlyWhenUnmounted(inst) == ~inst.mounted

\* line 162: the callback only reschedules itself
Idle(inst) == ~inst.mounted \/ ~inst.cVisible \/ inst.cPaused

\* line 167
DueAlways(inst, currentTime) == TRUE

Due(inst, currentTime) == IntervalElapsed(currentTime, inst.lastFrameTime, inst.fps)

RendersUnlessReduced(inst, currentTime) ==
    ~Idle(inst) /\ ~inst.cReduced /\ Due(inst, currentTime)

\* lines 162-167: this callback gets to renderer.render
Renders(inst, currentTime) == ~Idle(inst) /\ Due(inst, currentTime)

\* lines 161-192: animate(currentTime) run at host time t, without the
\* frame request that ends it
Animate(inst, currentTime, t) ==
    IF ~Renders(inst, currentTime) THEN inst
    ELSE LET d == GetDelta(inst.clock, t)
             moved == Motion([inst EXCEPT !.clock = d[2]], d[1])
         IN  [moved EXCEPT !.lastFrameTime = currentTime,
                           !.prevRender = inst.lastRender,
                           !.lastRender = currentTime]

\* history: the first two frame callbacks of a loop and whether each rendered
LogTick(inst, before, currentTime) ==
    IF Len(inst.ticks) < 2
    THEN [inst EXCEPT !.ticks = Append(@, [at |-> currentTime,
                                           rendered |-> Renders(before, currentTime)])]
    ELSE inst

\* requestAnimationFrame: ids only matter for equality, and every id handed
\* out is stored in frameRef at once, so the smallest id not pending is used
FreshId(pending) == CHOOSE n \in 1..(Cardinality(pending) + 1) : \A r \in pending : r.id # n

RequestedUnlessIdle(inst, k, pending) ==
    IF Idle(inst) THEN {} ELSE {[id |-> FreshId(pending), inst |-> k]}

\* lines 163 and 194: each way through animate ends in one
\* requestAnimationFrame(animate); the requests run k's callback adds to pending
Requested(inst, k, pending) == {[id |-> FreshId(pending), inst |-> k]}

\* frameRef.current after those requests
Stored(requests, ref) == IF requests = {} THEN ref ELSE (CHOOSE r \in requests : TRUE).id

\* ---------------------------------------------------- the effect's cleanup

Bump(counts) == [m \in 1..Len(counts) |-> counts[m] + 1]

\* lines 226-237: scene.traverse disposes every mesh's geometry and material
Traverse(is, scene) ==
    IF scene = 0 THEN is
    ELSE [is EXCEPT ![scene].geomDisposed = Bump(@), ![scene].matDisposed = Bump(@)]

\* line 222 on a node that is not a child of the container: NotFoundError
RemoveRaises(attached) == rendererRef # 0 /\ attached /\ rendererRef \notin children

CancelFrameSkipped(pending) == pending

\* lines 216-218: cancelAnimationFrame(frameRef.current), if it holds an id
CancelFrame(pending) ==
    IF frameRef # 0 THEN {r \in pending : r.id # frameRef} ELSE pending

\* Once mounted is false the closure's other variables are never read again:
\* animate returns at line 162 and handleResize at line 144 before reading
\* them.  The model drops what they held, and the frame history with them.
Retired(inst) ==
    [inst EXCEPT !.cPaused = FALSE, !.cReduced = FALSE, !.cVisible = FALSE,
                 !.lastFrameTime = 0, !.clock = [running |-> FALSE, oldTime |-> 0],
                 !.size = <<0, 0>>, !.aspect = <<0, 0>>, !.resized = FALSE,
                 !.ticks = <<>>, !.prevRender = -1, !.lastRender = -1]

\* lines 213-238 for run k, with mountRef.current attached or null.
\* An exception at line 222 ends the cleanup there.
Cleanup(k, attached) ==
    LET detach == rendererRef # 0 /\ attached /\ ~RemoveRaises(attached)
        left == IF detach THEN children \ {rendererRef} ELSE children
        off == [insts EXCEPT ![k] = Retired([@ EXCEPT !.mounted = FALSE,
                                                      !.tornAt = insts[k].pc,
                                                      !.tornRaised = RemoveRaises(attached),
                                                      !.tornLeft = Cardinality(left)])]
        raf == CancelFrame(rafPending)
        disposed == IF detach THEN [off EXCEPT ![rendererRef].rendererDisposed = @ + 1] ELSE off
    IN  [ insts    |-> IF RemoveRaises(attached) THEN off ELSE Traverse(disposed, sceneRef),
          children |-> left,
          raf      |-> raf,
          raised   |-> RemoveRaises(attached) ]

\* ------------------------------------------------ the other components' start

\* VisualSection before its first effect
VSStart ==
    [ visualInView |-> FALSE, prefersReducedMotion |-> FALSE,
      gsap |-> FALSE, isLoading |-> FALSE, showEnhanced |-> FALSE,
      devicePixelRatio |-> 1, mobile |-> FALSE,   \* window.devicePixelRatio; the user agent includes 'Mobile'
      effectPending |-> TRUE,       \* a render has been committed whose effect has not run
      importing |-> FALSE,          \* an import('gsap') is in flight
      loads |-> 0, failed |-> FALSE ]   \* history: imports started; one has been rejected

\* Navbar's debounced scroll handler before any scroll; timer ids are the
\* numbers of the calls that started them, 0 is null
DBStart ==
    [ debounceTimer |-> 0,          \* the state of the last committed render
      queued |-> 0,                 \* setDebounceTimer(id) not rendered yet (0: none)
      handlerTimer |-> 0,           \* debounceTimer in the closure of the subscribed scroll handler
      effectTimer |-> 0,            \* debounceTimer in the closure of the last effect's cleanup
      effectPending |-> FALSE,
      timers |-> {},                \* pending timeouts: [id, due]
      time |-> 0,
      callTimes |-> <<>>,           \* history: when each call arrived
      invoked |-> {} ]              \* history: the calls whose callback has run

\* Hero's wallet status on a page just loaded, no wallet connected
WalletStart ==
    [ isConnected |-> FALSE,        \* useAccount().isConnected
      isPending |-> FALSE,          \* useConnect().isPending: a connect is in flight
      walletConnected |-> FALSE,    \* Hero's own state
      connectors |-> {},            \* types of the configured connectors that are available
      requested |-> "none",         \* type of the connector the last connect() was given
      toast |-> "none",             \* the last toast shown
      clicks |-> 0 ]

\* Testimonials after its mount effects, no reduced-motion preference
TMStart ==
    [ currentIndex |-> 0, isHovered |-> FALSE, isFocused |-> FALSE,
      prefersReducedMotion |-> FALSE,
      interval |-> TRUE,            \* the setInterval of the auto-advance effect is active
      effectPending |-> FALSE,      \* a render with changed dependencies is committed, its effect not yet run
      trail |-> <<>> ]              \* history: the last two steps, [op, from, held]

\* nothing has been run on the query client
QCStart ==
    [ kind |-> "none", phase |-> "idle",
      failureCount |-> 0,           \* the retryer's failureCount
      error |-> <<>>,               \* message of the last failure
      retried |-> <<>> ]            \* history: [failureCount, message] of each failure that was retried

\* every component other than c is in its start state and stays there
Rest(c) ==
    /\ IF c = "visual" THEN TRUE ELSE vs = VSStart
    /\ IF c = "debounce" THEN TRUE ELSE db = DBStart
    /\ IF c = "wallet" THEN TRUE ELSE wallet = WalletStart
    /\ IF c = "testimonials" THEN TRUE ELSE car = TMStart
    /\ IF c = "query" THEN TRUE ELSE qc = QCStart

\* ----------------------------------------------------------------- actions

Init ==
    /\ hw \in HWValues /\ mem \in MemValues /\ webgl \in BOOLEAN
    /\ now = 0
    /\ rng \in 0..(NumSeeds - 1)
    /\ moduleLoaded = FALSE
    /\ containerSize = <<800, 600>>
    /\ docHidden = FALSE
    /\ capChecked = FALSE /\ shouldLoadCanvas = FALSE /\ canvasError = FALSE
    /\ heroIsVisible = TRUE
    /\ shouldReduceMotion \in BOOLEAN
    /\ page = "rendered"
    /\ hc = "absent"
    /\ isVisible = TRUE /\ error = "none"
    /\ mountRef = FALSE
    /\ frameRef = 0 /\ sceneRef = 0 /\ rendererRef = 0 /\ orbitsRef = 0
    /\ insts = <<>>
    /\ children = {}
    /\ rafPending = {}
    /\ resizeListeners = {}
    /\ crashPending = FALSE
    /\ pauseSnap = <<>>
    /\ Rest("hero")

\* Hero, lines 314-332: checkCapabilities, once after mount
CheckCapabilities ==
    /\ page = "rendered" /\ ~capChecked
    /\ capChecked' = TRUE
    /\ \E hasGoodConnection \in BOOLEAN, hasGoodViewport \in BOOLEAN :
          shouldLoadCanvas' = (hw >= HeroMinConcurrency /\ hasGoodConnection /\ hasGoodViewport)
    /\ UNCHANGED <<hostVars, canvasError, heroIsVisible, shouldReduceMotion, page,
                   canvasVars, pauseSnap, compVars>>

\* Hero, lines 443-449: the lazy HeroCanvas is rendered and committed
MountCanvas ==
    /\ page = "rendered" /\ shouldLoadCanvas /\ ~canvasError /\ hc = "absent"
    /\ hc' = "mounted"
    /\ mountRef' = TRUE
    /\ UNCHANGED <<hostVars, heroVars, isVisible, error, refVars, insts, children,
                   rafPending, resizeListeners, crashPending, pauseSnap, compVars>>

\* a commit of HeroCanvas with new props or state is possible
CanCommit ==
    /\ page = "rendered"
    /\ hc = "mounted" =>
          ~EffectPending /\ error = "none" /\ ~crashPending /\ Cur < MaxInits

ProbeSkipped == "importing"

\* lines 50-56: where initThreeJS stands when the effect returns: thrown out
\* of the WebGL check, or awaiting import('three')
Probe == IF webgl THEN "importing" ELSE "failed"

\* lines 43-58 and 211-239: the pending init effect is flushed: the cleanup
\* of the previous run, then initThreeJS up to its await
FlushEffect ==
    /\ EffectPending /\ Cur < MaxInits
    /\ mountRef
    /\ LET c == IF Cur = 0
                THEN [insts |-> insts, children |-> children, raf |-> rafPending, raised |-> FALSE]
                ELSE Cleanup(Cur, mountRef)
       IN  /\ insts' = Append(c.insts, [NewInst EXCEPT !.pc = Probe])
           /\ children' = c.children
           /\ rafPending' = c.raf
           /\ crashPending' = (crashPending \/ c.raised)
    /\ error' = IF Probe = "failed" THEN "webgl" ELSE error
    /\ pauseSnap' = IF ~Paused THEN <<>>
                    ELSE IF Cur > 0 /\ ~insts[Cur].cPaused /\ orbitsRef # 0
                         THEN Positions(insts[orbitsRef].orbits)
                         ELSE pauseSnap
    /\ UNCHANGED <<hostVars, heroVars, hc, isVisible, mountRef, refVars, resizeListeners, compVars>>

\* lines 56-58 and 203-208: the import is rejected (a module loaded once stays
\* loaded), or resolves after the cleanup
ImportSettles(k) ==
    /\ k \in 1..Len(insts) /\ insts[k].pc = "importing"
    /\ \/ /\ ~moduleLoaded
          /\ insts' = [insts EXCEPT ![k].pc = "failed"]
          /\ error' = IF insts[k].mounted THEN "import" ELSE error
          /\ moduleLoaded' = moduleLoaded
       \/ /\ ~insts[k].mounted
          /\ insts' = [insts EXCEPT ![k].pc = "aborted"]
          /\ error' = error
          /\ moduleLoaded' = TRUE
    /\ UNCHANGED <<hw, mem, webgl, now, containerSize, docHidden, rng, heroVars, hc, isVisible,
                   mountRef, refVars, children, rafPending, resizeListeners, crashPending,
                   pauseSnap, compVars>>

\* lines 76-80 and 203-208: new THREE.WebGLRenderer throws
RendererFails(k) ==
    /\ k \in 1..Len(insts) /\ insts[k].pc = "importing" /\ insts[k].mounted
    /\ insts' = [insts EXCEPT ![k].pc = "failed"]
    /\ error' = "renderer"
    /\ moduleLoaded' = TRUE
    /\ UNCHANGED <<hw, mem, webgl, now, containerSize, docHidden, rng, heroVars, hc, isVisible,
                   mountRef, refVars, children, rafPending, resizeListeners, crashPending,
                   pauseSnap, compVars>>

CanStartUnchecked(inst) == inst.pc = "importing"

\* lines 56-58: the import has resolved and the run has not been cleaned up
CanStart(inst) == inst.pc = "importing" /\ inst.mounted

\* lines 60-197: the scene is constructed, attached and its loop started
InitSucceeds(k) ==
    /\ k \in 1..Len(insts) /\ CanStart(insts[k])
    /\ mountRef
    /\ insts' = [insts EXCEPT ![k] = Animate(Construct(@, rng), 0, now)]
    /\ rng' = Advance(rng, 4 * OrbitCount(getPerformanceLevel(hw, mem)))
    /\ moduleLoaded' = TRUE
    /\ sceneRef' = k /\ rendererRef' = k /\ orbitsRef' = k
    /\ children' = children \cup {k}
    /\ resizeListeners' = resizeListeners \cup {k}
    /\ frameRef' = Stored(Requested(insts'[k], k, rafPending), frameRef)
    /\ rafPending' = rafPending \cup Requested(insts'[k], k, rafPending)
    /\ UNCHANGED <<hw, mem, webgl, now, containerSize, docHidden, heroVars, hc, isVisible,
                   error, mountRef, crashPending, pauseSnap, compVars>>

\* lines 161-195: the host runs one requested frame callback
Frame(req, dt) ==
    /\ req \in rafPending
    /\ now + dt <= MaxTime
    /\ now' = now + dt
    /\ insts' = [insts EXCEPT ![req.inst] = LogTick(Animate(@, now', now'), @, now')]
    /\ LET rest == rafPending \ {req}
       IN  /\ frameRef' = Stored(Requested(insts[req.inst], req.inst, rest), frameRef)
           /\ rafPending' = rest \cup Requested(insts[req.inst], req.inst, rest)
    /\ UNCHANGED <<hw, mem, webgl, containerSize, docHidden, rng, moduleLoaded, heroVars, hc, isVisible, error,
                   mountRef, sceneRef, rendererRef, orbitsRef, children, resizeListeners,
                   crashPending, pauseSnap, compVars>>

ResizedAspectOnly(inst, sz) ==
    IF ~mountRef \/ ~inst.mounted THEN inst
    ELSE [inst EXCEPT !.aspect = sz, !.resized = TRUE]

ResizedRecreating(inst, sz) ==
    IF ~mountRef \/ ~inst.mounted THEN inst
    ELSE [inst EXCEPT !.aspect = sz, !.size = sz, !.resized = TRUE, !.orbits = inst.created]

\* lines 143-152: handleResize of one subscribed run
Resized(inst, sz) ==
    IF ~mountRef \/ ~inst.mounted THEN inst
    ELSE [inst EXCEPT !.aspect = sz, !.size = sz, !.resized = TRUE]

\* the window is resized; every subscribed handleResize runs
Resize(sz) ==
    /\ page = "rendered"
    /\ sz # containerSize
    /\ containerSize' = sz
    /\ insts' = [k \in 1..Len(insts) |->
                    IF k \in resizeListeners THEN Resized(insts[k], sz) ELSE insts[k]]
    /\ UNCHANGED <<hw, mem, webgl, now, docHidden, rng, moduleLoaded, heroVars, hc, isVisible, error, mountRef,
                   refVars, children, rafPending, resizeListeners, crashPending, pauseSnap, compVars>>

\* lines 33-40: document visibilitychange; the listener exists once the
\* mount effects have run
VisibilityChange ==
    /\ CanCommit
    /\ docHidden' = ~docHidden
    /\ isVisible' = IF hc = "mounted" /\ Cur > 0 THEN docHidden ELSE isVisible
    /\ UNCHANGED <<hw, mem, webgl, now, containerSize, rng, moduleLoaded, heroVars, hc, error, mountRef, refVars,
                   insts, children, rafPending, resizeListeners, crashPending, pauseSnap, compVars>>

\* Hero, lines 335-351 and 446: the intersection observer flips isVisible,
\* HeroCanvas is rendered with paused = !isVisible
IntersectionChange ==
    /\ CanCommit
    /\ heroIsVisible' = ~heroIsVisible
    /\ UNCHANGED <<hostVars, capChecked, shouldLoadCanvas, canvasError, shouldReduceMotion,
                   page, canvasVars, pauseSnap, compVars>>

\* Hero, lines 309 and 447: the reduced-motion preference changes
ReducedMotionChange ==
    /\ CanCommit
    /\ shouldReduceMotion' = ~shouldReduceMotion
    /\ UNCHANGED <<hostVars, capChecked, shouldLoadCanvas, canvasError, heroIsVisible,
                   page, canvasVars, pauseSnap, compVars>>

\* HeroCanvas is deleted: its host ref is detached, then the cleanup of the
\* last run of the effect runs (lines 213-238)
UnmountCanvas ==
    /\ hc' = "unmounted"
    /\ mountRef' = FALSE
    /\ LET c == IF Cur = 0
                THEN [insts |-> insts, children |-> children, raf |-> rafPending, raised |-> FALSE]
                ELSE Cleanup(Cur, FALSE)
       IN  /\ insts' = c.insts
           /\ children' = c.children
           /\ rafPending' = c.raf
    /\ UNCHANGED <<isVisible, error, refVars, resizeListeners, crashPending>>

\* lines 241-243: render throws the recorded error (or a cleanup raised);
\* the nearest error boundary is above Hero, so the page's tree is replaced
ErrorRender ==
    /\ page = "rendered" /\ hc = "mounted"
    /\ error # "none" \/ crashPending
    /\ ~EffectPending
    /\ page' = "crashed"
    /\ UnmountCanvas
    /\ UNCHANGED <<hostVars, capChecked, shouldLoadCanvas, canvasError, heroIsVisible,
                   shouldReduceMotion, pauseSnap, compVars>>

\* the page is left: everything is unmounted
PageLeave ==
    /\ page = "rendered"
    /\ hc = "mounted" => ~EffectPending /\ error = "none" /\ ~crashPending
    /\ page' = "left"
    /\ IF hc = "mounted" THEN UnmountCanvas ELSE UNCHANGED canvasVars
    /\ UNCHANGED <<hostVars, capChecked, shouldLoadCanvas, canvasError, heroIsVisible,
                   shouldReduceMotion, pauseSnap, compVars>>

\* the await of some run's import('three') ends, one way or another
ImportStep == \E k \in 1..MaxInits : ImportSettles(k) \/ RendererFails(k) \/ InitSucceeds(k)

\* the host delivers an animation frame dt ms after the last event
FrameStep == \E req \in rafPending, dt \in TickSteps : Frame(req, dt)

Next ==
    \/ CheckCapabilities
    \/ MountCanvas
    \/ FlushEffect
    \/ ImportStep
    \/ FrameStep
    \/ VisibilityChange
    \/ IntersectionChange
    \/ ReducedMotionChange
    \/ ErrorRender
    \/ PageLeave

Spec == Init /\ [][Next]_vars

\* the same with window resizes, which only touch the container's size and the
\* size and aspect a run's renderer and camera hold
ResizeStep == \E sz \in ContainerSizes : Resize(sz)

NextResize == Next \/ ResizeStep

\* a host with WebGL that reports its memory, random generator at its start:
\* a resize reads and writes none of these
InitResize == Init /\ webgl /\ mem # 0 /\ rng = 0

SpecResize == InitResize /\ [][NextResize]_vars

\* HeroCanvas on its own, under any host capability signals: the component is
\* committed and its init effect runs to the end of initThreeJS
InitTier ==
    /\ hw \in 0..MaxHW /\ mem \in 0..MaxMem /\ webgl = TRUE
    /\ now = 0
    /\ rng = 0
    /\ moduleLoaded = FALSE
    /\ containerSize = <<800, 600>>
    /\ docHidden = FALSE
    /\ capChecked = TRUE /\ shouldLoadCanvas = TRUE /\ canvasError = FALSE
    /\ heroIsVisible = TRUE
    /\ shouldReduceMotion = FALSE
    /\ page = "rendered"
    /\ hc = "mounted"
    /\ isVisible = TRUE /\ error = "none"
    /\ mountRef = TRUE
    /\ frameRef = 0 /\ sceneRef = 0 /\ rendererRef = 0 /\ orbitsRef = 0
    /\ insts = <<>>
    /\ children = {}
    /\ rafPending = {}
    /\ resizeListeners = {}
    /\ crashPending = FALSE
    /\ pauseSnap = <<>>
    /\ Rest("hero")

NextTier == FlushEffect \/ InitSucceeds(1)

SpecTier == InitTier /\ [][NextTier]_vars

\* ------------------------------------------------------------ VisualSection
\* src/src/components/visuals/VisualSection.tsx

\* HeroCanvas and Hero left alone, on a fixed host
HeroAtRest ==
    /\ mem = 0 /\ webgl = TRUE
    /\ now = 0
    /\ rng = 0
    /\ moduleLoaded = FALSE
    /\ containerSize = <<800, 600>>
    /\ docHidden = FALSE
    /\ capChecked = FALSE /\ shouldLoadCanvas = FALSE /\ canvasError = FALSE
    /\ heroIsVisible = TRUE
    /\ shouldReduceMotion = FALSE
    /\ page = "rendered"
    /\ hc = "absent"
    /\ isVisible = TRUE /\ error = "none"
    /\ mountRef = FALSE
    /\ frameRef = 0 /\ sceneRef = 0 /\ rendererRef = 0 /\ orbitsRef = 0
    /\ insts = <<>>
    /\ children = {}
    /\ rafPending = {}
    /\ resizeListeners = {}
    /\ crashPending = FALSE
    /\ pauseSnap = <<>>

\* lines 43-46: the device performance heuristics
IsHighPerformance ==
    hw >= GsapMinConcurrency /\ vs.devicePixelRatio <= GsapMaxPixelRatio /\ ~vs.mobile

\* line 223: the effect starts a load
VSGuard == vs.visualInView /\ ~vs.prefersReducedMotion /\ ~vs.gsap /\ ~vs.isLoading

\* lines 39-53: loadGSAP gets past its early returns to the import
VSStartsImport == ~(vs.gsap \/ vs.isLoading) /\ IsHighPerformance

\* lines 221-230 and 39-56: the effect of the last committed render runs; it
\* runs after every render, loadGSAP being a new function each time
VSEffect ==
    /\ vs.effectPending
    /\ IF VSGuard /\ VSStartsImport
       THEN /\ vs.loads < MaxLoads
            /\ vs' = [vs EXCEPT !.isLoading = TRUE, !.importing = TRUE,
                                 !.loads = @ + 1, !.effectPending = TRUE]
       ELSE vs' = [vs EXCEPT !.effectPending = FALSE]
    /\ UNCHANGED <<heroCanvasVars, db, wallet, car, qc>>

\* lines 56-58, 63-64, 225-227: the import resolves
VSImportResolves ==
    /\ vs.importing
    /\ vs' = [vs EXCEPT !.importing = FALSE, !.gsap = TRUE, !.isLoading = FALSE,
                         !.showEnhanced = TRUE, !.effectPending = TRUE]
    /\ UNCHANGED <<heroCanvasVars, db, wallet, car, qc>>

\* lines 59-64: the import is rejected
VSImportFails ==
    /\ vs.importing
    /\ vs' = [vs EXCEPT !.importing = FALSE, !.isLoading = FALSE, !.failed = TRUE,
                         !.effectPending = TRUE]
    /\ UNCHANGED <<heroCanvasVars, db, wallet, car, qc>>

\* line 219: useInView(visualRef, { once: true })
VSEntersView ==
    /\ ~vs.visualInView
    /\ vs' = [vs EXCEPT !.visualInView = TRUE, !.effectPending = TRUE]
    /\ UNCHANGED <<heroCanvasVars, db, wallet, car, qc>>

\* lines 15-29: the stored or system preference is read, or the button toggles it
VSMotionPreference ==
    /\ vs' = [vs EXCEPT !.prefersReducedMotion = ~@, !.effectPending = TRUE]
    /\ UNCHANGED <<heroCanvasVars, db, wallet, car, qc>>

InitVisual ==
    /\ HeroAtRest /\ hw \in HWValues
    /\ Rest("visual")
    /\ \E dpr \in PixelRatios, mobile \in BOOLEAN :
          vs = [VSStart EXCEPT !.devicePixelRatio = dpr, !.mobile = mobile]

NextVisual ==
    \/ VSEffect
    \/ VSImportResolves
    \/ VSImportFails
    \/ VSEntersView
    \/ VSMotionPreference

SpecVisual == InitVisual /\ [][NextVisual]_vars

\* -------------------------------------------------- Navbar: useDebounce
\* src/unnamed/part_005

\* clearTimeout(id); clearing null or a timer that is gone does nothing
ClearTimeout(timers, id) == {tm \in timers : tm.id # id}

\* lines 158-170: a scroll event calls the subscribed debouncedCallback
DBCall ==
    /\ Len(db.callTimes) < MaxCalls
    /\ LET id == Len(db.callTimes) + 1
       IN  db' = [db EXCEPT
                    !.timers = ClearTimeout(@, db.handlerTimer)
                                   \cup {[id |-> id, due |-> db.time + ScrollDelay]},
                    !.queued = id,
                    !.callTimes = Append(@, db.time)]
    /\ UNCHANGED <<heroCanvasVars, vs, wallet, car, qc>>

\* a render with the queued state is committed
DBRender ==
    /\ db.queued # 0 /\ ~db.effectPending
    /\ db' = [db EXCEPT !.debounceTimer = db.queued, !.queued = 0, !.effectPending = TRUE]
    /\ UNCHANGED <<heroCanvasVars, vs, wallet, car, qc>>

\* lines 174-180 and 197-202: the commit's effects are flushed: the cleanup of
\* the previous timer effect, and the scroll listener is replaced by the
\* handler of this render
DBEffects ==
    /\ db.effectPending
    /\ db' = [db EXCEPT !.timers = ClearTimeout(@, db.effectTimer),
                         !.effectTimer = db.debounceTimer,
                         !.handlerTimer = db.debounceTimer,
                         !.effectPending = FALSE]
    /\ UNCHANGED <<heroCanvasVars, vs, wallet, car, qc>>

\* lines 165-167: a timeout that is due fires and runs the callback
DBFire ==
    /\ \E tm \in db.timers :
          /\ tm.due <= db.time
          /\ db' = [db EXCEPT !.timers = @ \ {tm}, !.invoked = @ \cup {tm.id}]
    /\ UNCHANGED <<heroCanvasVars, vs, wallet, car, qc>>

\* time passes, no further than the next timeout that is due
DBTick ==
    /\ \E d \in ScrollTickSteps :
          /\ db.time + d <= MaxScrollTime
          /\ \A tm \in db.timers : tm.due >= db.time + d
          /\ db' = [db EXCEPT !.time = @ + d]
    /\ UNCHANGED <<heroCanvasVars, vs, wallet, car, qc>>

InitDebounce ==
    /\ HeroAtRest /\ hw = DefaultConcurrency
    /\ Rest("debounce")
    /\ db = DBStart

NextDebounce ==
    \/ DBCall
    \/ DBRender
    \/ DBEffects
    \/ DBFire
    \/ DBTick

SpecDebounce == InitDebounce /\ [][NextDebounce]_vars

\* ---------------------------------------------- Hero: wallet status
\* src/unnamed/part_000, lines 303-384 and 521-531

ConnectorTypes == {"injected", "walletConnect"}

\* lines 526-529 and 354: what Hero treats as connected
ShowsConnected == wallet.isConnected \/ wallet.walletConnected

\* lines 353-384: handleGetStarted
GetStarted ==
    /\ wallet.clicks < MaxClicks
    /\ ~wallet.isPending                      \* line 494: the button is disabled meanwhile
    /\ wallet' =
          IF ShowsConnected
          THEN [wallet EXCEPT !.toast = "welcome", !.walletConnected = TRUE, !.clicks = @ + 1]
          ELSE IF "injected" \in wallet.connectors
               THEN [wallet EXCEPT !.isPending = TRUE, !.requested = "injected", !.clicks = @ + 1]
               ELSE IF "walletConnect" \in wallet.connectors
                    THEN [wallet EXCEPT !.isPending = TRUE, !.requested = "walletConnect",
                                        !.clicks = @ + 1]
                    ELSE [wallet EXCEPT !.toast = "noWallet", !.clicks = @ + 1]
    /\ UNCHANGED <<heroCanvasVars, vs, db, car, qc>>

\* useConnect: the pending connect succeeds
ConnectSucceeds ==
    /\ wallet.isPending
    /\ wallet' = [wallet EXCEPT !.isPending = FALSE, !.isConnected = TRUE]
    /\ UNCHANGED <<heroCanvasVars, vs, db, car, qc>>

\* useConnect: the pending connect is refused
ConnectFails ==
    /\ wallet.isPending
    /\ wallet' = [wallet EXCEPT !.isPending = FALSE]
    /\ UNCHANGED <<heroCanvasVars, vs, db, car, qc>>

\* useAccount: the account is disconnected (from the navbar's menu or the wallet)
Disconnect ==
    /\ wallet.isConnected
    /\ wallet' = [wallet EXCEPT !.isConnected = FALSE]
    /\ UNCHANGED <<heroCanvasVars, vs, db, car, qc>>

\* useAccount: the account is connected from the navbar
ConnectElsewhere ==
    /\ ~wallet.isConnected /\ ~wallet.isPending /\ wallet.connectors # {}
    /\ wallet' = [wallet EXCEPT !.isConnected = TRUE]
    /\ UNCHANGED <<heroCanvasVars, vs, db, car, qc>>

InitWallet ==
    /\ HeroAtRest /\ hw = DefaultConcurrency
    /\ Rest("wallet")
    /\ \E cs \in SUBSET ConnectorTypes : wallet = [WalletStart EXCEPT !.connectors = cs]

NextWallet ==
    \/ GetStarted
    \/ ConnectSucceeds
    \/ ConnectFails
    \/ Disconnect
    \/ ConnectElsewhere

SpecWallet == InitWallet /\ [][NextWallet]_vars

\* ------------------------------------------------------------ Testimonials
\* src/unnamed/part_002

NextIndexNoWrap(prev) == prev + 1

\* line 62
NextIndex(prev) == (prev + 1) % NumTestimonials

\* line 66
PrevIndex(prev) == (prev - 1 + NumTestimonials) % NumTestimonials

\* line 75: the auto-advance effect sets no interval
Held(s) == s.prefersReducedMotion \/ s.isHovered \/ s.isFocused \/ NumTestimonials <= 1

\* the step is added to the history, which keeps the last two
Logged(s, op) ==
    LET e == [op |-> op, from |-> s.currentIndex, held |-> Held(s)]
    IN  IF Len(s.trail) < 2 THEN Append(s.trail, e) ELSE <<s.trail[2], e>>

\* lines 74-81: the cleanup of the last run clears its interval, the new run
\* sets one unless held
EffectRun(s) == [s EXCEPT !.interval = ~Held(s), !.effectPending = FALSE]

\* lines 61-63 and 230 (or ArrowRight while focused, lines 92-95)
TNext ==
    /\ car' = [car EXCEPT !.currentIndex = NextIndex(@), !.trail = Logged(car, "next")]
    /\ UNCHANGED <<heroCanvasVars, vs, db, wallet, qc>>

\* lines 65-67 and 205 (or ArrowLeft while focused, lines 88-91)
TPrev ==
    /\ car' = [car EXCEPT !.currentIndex = PrevIndex(@), !.trail = Logged(car, "prev")]
    /\ UNCHANGED <<heroCanvasVars, vs, db, wallet, qc>>

\* lines 69-71 and 214-217: a pager dot
TGoTo ==
    /\ \E index \in 0..(NumTestimonials - 1) :
          car' = [car EXCEPT !.currentIndex = index, !.trail = Logged(car, "goto")]
    /\ UNCHANGED <<heroCanvasVars, vs, db, wallet, qc>>

\* line 79: the interval fires and calls nextTestimonial
TAuto ==
    /\ car.interval
    /\ car' = [car EXCEPT !.currentIndex = NextIndex(@), !.trail = Logged(car, "auto")]
    /\ UNCHANGED <<heroCanvasVars, vs, db, wallet, qc>>

\* lines 145-146: mouseenter / mouseleave; the render is committed, its
\* effects are flushed in a later task
THover ==
    /\ car' = [car EXCEPT !.isHovered = ~@, !.effectPending = TRUE]
    /\ UNCHANGED <<heroCanvasVars, vs, db, wallet, qc>>

\* lines 143-144: focus / blur are discrete events: render, commit and the
\* flush of all pending effects happen within the event's task
TFocus ==
    /\ car' = EffectRun([car EXCEPT !.isFocused = ~@])
    /\ UNCHANGED <<heroCanvasVars, vs, db, wallet, qc>>

\* lines 52-54: the media query changes; the render is committed, its effects
\* are flushed in a later task
TMediaChange ==
    /\ car' = [car EXCEPT !.prefersReducedMotion = ~@, !.effectPending = TRUE]
    /\ UNCHANGED <<heroCanvasVars, vs, db, wallet, qc>>

\* lines 74-81: the pending auto-advance effect is flushed
TEffect ==
    /\ car.effectPending
    /\ car' = EffectRun(car)
    /\ UNCHANGED <<heroCanvasVars, vs, db, wallet, qc>>

InitTestimonials ==
    /\ HeroAtRest /\ hw = DefaultConcurrency
    /\ Rest("testimonials")
    /\ car = TMStart

NextTestimonials ==
    \/ TNext
    \/ TPrev
    \/ TGoTo
    \/ TAuto
    \/ THover
    \/ TFocus
    \/ TMediaChange
    \/ TEffect

SpecTestimonials == InitTestimonials /\ [][NextTestimonials]_vars

\* ------------------------------------------------------------- queryClient
\* src/src/lib/wagmi/config.ts, run by the retryer of @tanstack/query-core

\* error messages, as their characters; <<>> is an error without a message
UserRejected == <<"U","s","e","r"," ","r","e","j","e","c","t","e","d">>
AccessDenied == <<"d","e","n","i","e","d",".">>
Capitalised == <<"R","e","j","e","c","t","e","d">>
Timeout == <<"t","i","m","e","d"," ","o","u","t">>
Messages == {UserRejected, AccessDenied, Capitalised, Timeout, <<>>}

Rejected == <<"r","e","j","e","c","t","e","d">>
Denied == <<"d","e","n","i","e","d">>

\* String.prototype.includes
Includes(s, p) ==
    \E i \in 1..(Len(s) - Len(p) + 1) : SubSeq(s, i, i + Len(p) - 1) = p

RetryQueryIgnoringMessage(failureCount, message) == failureCount < RetryLimit

\* lines 96-102: queries.retry
RetryQuery(failureCount, message) ==
    IF Includes(message, Rejected) \/ Includes(message, Denied)
    THEN FALSE
    ELSE failureCount < RetryLimit

\* line 106: mutations.retry
RetryMutation(failureCount, message) == FALSE

\* a query or a mutation is run with the client's default options
QStart ==
    /\ qc.phase = "idle"
    /\ \E k \in {"query", "mutation"} : qc' = [qc EXCEPT !.kind = k, !.phase = "running"]
    /\ UNCHANGED <<heroCanvasVars, vs, db, wallet, car>>

\* the function resolves
QSucceeds ==
    /\ qc.phase = "running"
    /\ qc' = [qc EXCEPT !.phase = "success"]
    /\ UNCHANGED <<heroCanvasVars, vs, db, wallet, car>>

\* the function rejects: the retryer asks retry(failureCount, error) and either
\* rejects for good or counts the failure and waits for retryDelay
QFails ==
    /\ qc.phase = "running"
    /\ \E message \in Messages :
          LET shouldRetry == IF qc.kind = "query"
                             THEN RetryQuery(qc.failureCount, message)
                             ELSE RetryMutation(qc.failureCount, message)
          IN  IF shouldRetry
              THEN qc' = [qc EXCEPT !.phase = "waiting", !.error = message,
                                    !.failureCount = @ + 1,
                                    !.retried = Append(@, [failureCount |-> qc.failureCount,
                                                           message |-> message])]
              ELSE qc' = [qc EXCEPT !.phase = "error", !.error = message]
    /\ UNCHANGED <<heroCanvasVars, vs, db, wallet, car>>

\* line 103: retryDelay has passed, the function is run again
QRetry ==
    /\ qc.phase = "waiting"
    /\ qc' = [qc EXCEPT !.phase = "running"]
    /\ UNCHANGED <<heroCanvasVars, vs, db, wallet, car>>

InitQuery ==
    /\ HeroAtRest /\ hw = DefaultConcurrency
    /\ Rest("query")
    /\ qc = QCStart

NextQuery ==
    \/ QStart
    \/ QSucceeds
    \/ QFails
    \/ QRetry

SpecQuery == InitQuery /\ [][NextQuery]_vars

\* ------------------------------------------------------------------ claims

Runs == 1..Len(insts)
Built(k) == insts[k].level # "none"
Live(k) == insts[k].pc = "running" /\ insts[k].mounted

\* C1 (as claimed): between mount and unmount the scene is constructed at
\* most once, whatever the inputs do
C1_SceneBuiltOnce == Cardinality({k \in Runs : Built(k)}) <= 1

\* C2 (as claimed): while paused, the orbiting objects orbitsRef holds are
\* where they were when the component saw paused become true
C2_PausedPositionsFrozen ==
    (hc = "mounted" /\ Paused /\ pauseSnap # <<>> /\ orbitsRef # 0)
        => Positions(insts[orbitsRef].orbits) = pauseSnap

\* C3 (as claimed): a cleanup that ran after a successful init disposed every
\* geometry and material of that scene, and nothing is ever disposed twice
C3_DisposedExactlyOnce ==
    \A k \in Runs : Built(k) =>
        /\ \A m \in 1..Len(insts[k].geomDisposed) :
              insts[k].geomDisposed[m] <= 1 /\ insts[k].matDisposed[m] <= 1
        /\ insts[k].tornAt = "running" =>
              \A m \in 1..Len(insts[k].geomDisposed) :
                  insts[k].geomDisposed[m] = 1 /\ insts[k].matDisposed[m] = 1

\* C3, first half alone: every mesh of a torn-down scene has been disposed
C3_TornSceneDisposed ==
    \A k \in Runs : (Built(k) /\ insts[k].tornAt = "running") =>
        \A m \in 1..Len(insts[k].geomDisposed) :
            insts[k].geomDisposed[m] >= 1 /\ insts[k].matDisposed[m] >= 1

\* C4 (as claimed): the cleanup of a run that had failed does not raise and
\* leaves no surface attached to the container
C4_TeardownAfterFailedInit ==
    \A k \in Runs : insts[k].tornAt = "failed" =>
        ~insts[k].tornRaised /\ insts[k].tornLeft = 0

\* C5 (as claimed): once unmounted after a successful init, no frame is
\* requested, the surface is detached and the renderer disposed
C5_UnmountReleases ==
    (hc = "unmounted" /\ Cur > 0 /\ insts[Cur].tornAt = "running") =>
        /\ rafPending = {}
        /\ children = {}
        /\ insts[Cur].rendererDisposed >= 1

\* C5, first part alone: no frame request survives the unmount
C5_NoFrameAfterUnmount == hc = "unmounted" => rafPending = {}

\* C6 (as claimed): after a failed init has been rendered, Hero shows its
\* static fallback and the page is still rendered
C6_FallbackShown ==
    (hc = "unmounted" /\ error # "none") => (canvasError /\ page = "rendered")

\* C7: two renders of one loop are at least 1000/fps ms apart
C7_RenderSpacing ==
    \A k \in Runs : insts[k].prevRender >= 0 =>
        (insts[k].lastRender - insts[k].prevRender) * insts[k].fps >= 1000

C7_Witness ==
    \E k \in Runs : Live(k) /\ insts[k].prevRender > 0 /\ Len(insts[k].ticks) = 2
                    /\ ~insts[k].ticks[1].rendered

FirstPairFiveApart(k) ==
    /\ Live(k) /\ ~Idle(insts[k]) /\ insts[k].fps = 30
    /\ Len(insts[k].ticks) = 2
    /\ insts[k].ticks[2].at - insts[k].ticks[1].at = 5

\* C8 (as claimed): at 30 fps the first two ticks of a loop, 5 ms apart,
\* render exactly once, the first, whatever the first timestamp
C8_FirstOfPairRenders ==
    \A k \in Runs : FirstPairFiveApart(k) =>
        (insts[k].ticks[1].rendered /\ ~insts[k].ticks[2].rendered)

\* C8, for first ticks at least one interval after time 0 only: the first
\* renders, the second does not
C8_FirstOfPairRendersLate ==
    \A k \in Runs : (FirstPairFiveApart(k) /\ insts[k].ticks[1].at * 30 >= 1000) =>
        (insts[k].ticks[1].rendered /\ ~insts[k].ticks[2].rendered)

\* such a pair: first tick at 35 ms, second at 40 ms
C8_Witness ==
    \E k \in Runs : FirstPairFiveApart(k) /\ insts[k].ticks[1].at * 30 >= 1000
                    /\ insts[k].ticks[1].rendered

C10_TierConfig ==
    \A k \in Runs : Built(k) =>
        LET count == IF hw = 0 THEN 4 ELSE hw
            memory == IF mem = 0 THEN 4 ELSE mem
        IN  IF count <= 4 \/ memory <= 4
            THEN /\ insts[k].level = "low" /\ Len(insts[k].orbits) = 8
                 /\ insts[k].fps = 30 /\ ~insts[k].antialias
            ELSE /\ insts[k].level = "high" /\ Len(insts[k].orbits) = 12
                 /\ insts[k].fps = 60 /\ insts[k].antialias

C10_Witness ==
    \E k \in Runs : Built(k) /\ hw > 4 /\ mem = 0 /\ insts[k].level = "low"

\* C11: the live surface has the container's current size, and the camera's
\* aspect is the container's width / height, through any resizes
C11_ResizeTracksContainer ==
    \A k \in Runs : (hc = "mounted" /\ Live(k)) =>
        /\ insts[k].size = containerSize
        /\ insts[k].aspect[1] * containerSize[2] = insts[k].aspect[2] * containerSize[1]

\* a surface that a resize has brought to 400x300 with aspect 400/300
C11_Witness ==
    \E k \in Runs : /\ hc = "mounted" /\ Live(k)
                     /\ insts[k].resized
                     /\ containerSize = <<400, 300>>
                     /\ insts[k].size = <<400, 300>> /\ insts[k].aspect = <<400, 300>>

\* what a resize may not touch: the runs, their objects and parameters, the
\* references to scene and orbits, the container's children
SceneGraph ==
    << [k \in Runs |-> <<insts[k].orbits, insts[k].created, insts[k].core, insts[k].level,
                          insts[k].geomDisposed, insts[k].matDisposed>>],
       sceneRef, orbitsRef, rendererRef, children >>

\* C12: a step that resizes the container leaves the scene graph as it was
C12_ResizeKeepsScene == [][containerSize' # containerSize => SceneGraph' = SceneGraph]_vars

\* a scene whose objects have moved from where they were created, resized since
C12_Witness ==
    \E k \in Runs : /\ hc = "mounted" /\ Live(k)
                     /\ insts[k].resized
                     /\ insts[k].orbits # insts[k].created
                     /\ insts[k].size = <<300, 400>>

\* C13: every pending frame request belongs to a loop that has not been torn
\* down, so no callback of a cancelled loop can run again
C13_NoFrameAfterCancel ==
    \A r \in rafPending : insts[r.inst].mounted /\ insts[r.inst].tornAt = ""

\* a loop torn down after it ran, and a later loop that has run two callbacks
C13_Witness ==
    \E k \in Runs, j \in Runs :
        /\ insts[k].tornAt = "running" /\ k < j
        /\ Live(j) /\ Len(insts[j].ticks) = 2

NeverStarted(k) == insts[k].pc \in {"importing", "failed"}

\* C14: a step that tears down a run whose loop never started (its init is
\* pending or has failed) leaves the frame requests and frameRef as they
\* were, also when frameRef holds the id of a loop cancelled before
C14_CancelIdempotent ==
    [][\A k \in Runs :
          (insts[k].mounted /\ ~insts'[k].mounted /\ NeverStarted(k))
              => (rafPending' = rafPending /\ frameRef' = frameRef)]_vars

\* a never-started run torn down after an earlier loop had been cancelled
C14_Witness ==
    \E k \in Runs, j \in Runs :
        /\ j < k /\ insts[j].tornAt = "running"
        /\ insts[k].tornAt \in {"importing", "failed"}
        /\ frameRef # 0

\* C15 (as claimed): once a capability-probe or renderer-construction failure
\* has been recorded, no step starts another run of the initialization
C15_NoInitAfterFailure ==
    [][(error \in {"webgl", "renderer"}) => (Cur' = Cur)]_vars

\* C15, the report alone: a failed component that has been unmounted threw
\* its error in render, which takes the page's tree down with it, once
C15_ReportedOnce ==
    (hc = "unmounted" /\ error \in {"webgl", "renderer"}) => page = "crashed"

\* C16: on a host without WebGL no run constructs a scene, nothing is
\* attached to the container, no frame is requested, and a run that has
\* been started has recorded the failure as the component's error
C16_NoWebGLFailsFast ==
    ~webgl =>
        /\ \A k \in Runs : ~Built(k) /\ insts[k].pc = "failed"
        /\ children = {} /\ rafPending = {} /\ rendererRef = 0
        /\ Cur > 0 => error = "webgl"

\* the effect has run on a host without WebGL, before the error is rendered
C16_Witness ==
    ~webgl /\ hc = "mounted" /\ Cur = 1 /\ insts[1].pc = "failed" /\ error = "webgl"

\* the loop of run k sees the component hidden or paused
SeesPausedOrHidden(k) == Live(k) /\ (insts[k].cPaused \/ ~insts[k].cVisible)

C18_OneLoop ==
    /\ Cardinality(rafPending) <= 1
    /\ Cardinality({r.inst : r \in rafPending}) <= 1

\* a loop with its frame request pending, after an earlier run's import
\* resolved too late and an earlier loop was torn down
C18_Witness ==
    \E j \in Runs, k \in Runs, l \in Runs :
        /\ k < j /\ l < j
        /\ insts[k].pc = "aborted"
        /\ insts[l].tornAt = "running"
        /\ Live(j) /\ \E r \in rafPending : r.inst = j

\* C19 (as claimed): the container never holds more than one surface, and
\* its children change only by the append of the first surface constructed
\* and by a removal in the step that unmounts the component
C19_ContainerMutatedAtMountAndUnmount ==
    [][/\ Cardinality(children') <= 1
       /\ (children' # children) =>
             \/ (children = {} /\ Cardinality(children') = 1 /\ \A k \in Runs : ~Built(k))
             \/ (hc = "mounted" /\ hc' = "unmounted" /\ children' = {})]_vars

\* C19, first half alone: at most one surface is attached
C19_AtMostOneSurface == Cardinality(children) <= 1

\* C20: a live loop always has exactly one frame request pending, the one
\* frameRef holds: every callback, rendering or not, has requested the next
C20_LiveLoopScheduled ==
    \A k \in Runs : Live(k) =>
        /\ Cardinality({r \in rafPending : r.inst = k}) = 1
        /\ \E r \in rafPending : r.inst = k /\ r.id = frameRef

\* a loop that sees the page hidden, after two callbacks at different times
C20_Witness ==
    \E k \in Runs : /\ Live(k) /\ hc = "mounted" /\ ~insts[k].cVisible
                     /\ Len(insts[k].ticks) = 2
                     /\ insts[k].ticks[1].at < insts[k].ticks[2].at
                     /\ \E r \in rafPending : r.inst = k

\* the loop of run k runs under reduced motion, visible and unpaused
ReducedAndRunning(k) ==
    Live(k) /\ insts[k].cReduced /\ insts[k].cVisible /\ ~insts[k].cPaused

C22_OrbitParametersFixed ==
    \A k \in Runs : Built(k) =>
        /\ Len(insts[k].orbits) = Len(insts[k].created)
        /\ \A j \in 1..Len(insts[k].orbits) :
              /\ insts[k].orbits[j].radius = insts[k].created[j].radius
              /\ insts[k].orbits[j].speed = insts[k].created[j].speed
              /\ insts[k].orbits[j].verticalSpeed = insts[k].created[j].verticalSpeed

\* a scene rendered twice with motion, and resized: angle and vertical phase
\* of its first object have advanced
C22_Witness ==
    \E k \in Runs : /\ Live(k) /\ insts[k].resized /\ insts[k].prevRender > 0
                     /\ insts[k].orbits[1].angle > insts[k].created[1].angle
                     /\ insts[k].orbits[1].height > insts[k].created[1].height

\* C23: the step in which the import of a run torn down while it was pending
\* settles (resolved or rejected) builds no scene and leaves the container's
\* children, the resize handlers, the frame requests, the refs and the
\* component's error as they were
C23_LateImportDoesNothing ==
    [][\A k \in Runs :
          (insts[k].tornAt = "importing" /\ insts[k].pc = "importing"
              /\ insts'[k].pc # "importing")
          => /\ insts'[k].level = "none" /\ insts'[k].orbits = <<>>
             /\ children' = children /\ resizeListeners' = resizeListeners
             /\ rafPending' = rafPending /\ refVars' = refVars
             /\ error' = error]_vars

\* the component was unmounted during the import, which has resolved since
C23_Witness ==
    \E k \in Runs : /\ hc = "unmounted" /\ insts[k].tornAt = "importing"
                     /\ insts[k].pc = "aborted" /\ moduleLoaded

\* C24 (as claimed): no run that has been torn down still has its
\* handleResize subscribed, and at most one handler is subscribed
C24_ResizeHandlerReleased ==
    /\ \A k \in resizeListeners : insts[k].tornAt = ""
    /\ Cardinality(resizeListeners) <= 1

\* the enhanced visual is rendered instead of the default one (line 365)
ShowsEnhanced == vs.showEnhanced /\ vs.gsap

\* C25 (as claimed): once a load of GSAP has been rejected no step starts
\* another load, and the default visual stays
C25_NoReloadAfterFailure ==
    [][vs.failed => (vs'.loads = vs.loads /\ ~ShowsEnhanced')]_vars

\* C26 (as claimed): at most one timeout is pending, and a call followed by
\* another less than the delay later never has its callback run
C26_OnlyLastCallFires ==
    /\ Cardinality(db.timers) <= 1
    /\ \A c \in db.invoked :
          c < Len(db.callTimes) => db.callTimes[c + 1] - db.callTimes[c] >= ScrollDelay

\* C27 (as claimed): Hero shows the wallet as connected only while the
\* account is connected
C27_StatusFollowsAccount == ShowsConnected => wallet.isConnected

\* the index one step forward and one step back, written out
StepForward(i) == IF i = NumTestimonials - 1 THEN 0 ELSE i + 1
StepBack(i) == IF i = 0 THEN NumTestimonials - 1 ELSE i - 1

\* where the step e of the history led: the from of the step after it, or
\* the current index
LedTo(n) == IF n < Len(car.trail) THEN car.trail[n + 1].from ELSE car.currentIndex

\* C28: the index is always valid; next (also the auto-advance) leads one
\* forward and previous one back, wrapping; previous after next is back where
\* next started
C28_IndexValid ==
    /\ car.currentIndex \in 0..(NumTestimonials - 1)
    /\ \A n \in 1..Len(car.trail) :
          /\ car.trail[n].op \in {"next", "auto"} => LedTo(n) = StepForward(car.trail[n].from)
          /\ car.trail[n].op = "prev" => LedTo(n) = StepBack(car.trail[n].from)
    /\ (Len(car.trail) = 2 /\ car.trail[1].op = "next" /\ car.trail[2].op = "prev")
          => car.currentIndex = car.trail[1].from

\* next from the last item, then previous
C28_Witness ==
    /\ Len(car.trail) = 2
    /\ car.trail[1].op = "next" /\ car.trail[1].from = NumTestimonials - 1
    /\ car.trail[2].op = "prev" /\ car.trail[2].from = 0
    /\ car.currentIndex = NumTestimonials - 1

\* C29 (as claimed): no auto-advance step happens while the carousel is
\* hovered, focused or reduced motion is preferred
C29_NoAutoAdvanceWhileHeld ==
    \A n \in 1..Len(car.trail) : car.trail[n].op = "auto" => ~car.trail[n].held

\* C29, once the effect of the render that saw the change has run: the
\* interval is active exactly when nothing holds the carousel
C29_IntervalFollowsEffect == ~car.effectPending => (car.interval <=> ~Held(car))

\* C30: every retried failure was a query's, its message contained neither
\* 'rejected' nor 'denied' and its failure count was below 3; so a query is
\* retried at most 3 times and a mutation never
C30_RetryPolicy ==
    /\ \A n \in 1..Len(qc.retried) :
          /\ qc.kind = "query"
          /\ ~Includes(qc.retried[n].message, Rejected)
          /\ ~Includes(qc.retried[n].message, Denied)
          /\ qc.retried[n].failureCount < 3
    /\ Len(qc.retried) <= 3
    /\ qc.kind = "mutation" => Len(qc.retried) = 0

\* a query that was retried three times, the last retry ended by a rejection
C30_Witness ==
    /\ qc.kind = "query" /\ qc.phase = "error"
    /\ Len(qc.retried) = 3
    /\ Includes(qc.error, Rejected)

\* a query that failed a fourth time with a retryable error is not retried
C30_WitnessLimit ==
    /\ qc.kind = "query" /\ qc.phase = "error"
    /\ Len(qc.retried) = 3
    /\ qc.error = Timeout

\* a mutation that failed with a retryable error is not retried
C30_WitnessMutation ==
    qc.kind = "mutation" /\ qc.phase = "error" /\ qc.error = Timeout

====
